---- MODULE Spec2Model ----
(***************************************************************************)
(* esp8266-ota: the fleet monitor (scripts/monitor_fleet.py) and the OTA   *)
(* notifier (scripts/mqtt_notify.py and the older mqtt_notify.py).         *)
(*                                                                         *)
(* Representation.                                                         *)
(*  - A Python dict is a function whose DOMAIN is the set of its keys.     *)
(*  - A string that the code searches or concatenates (topics, versions,   *)
(*    checksums, URLs, keys) is a sequence of tokens; a literal of the     *)
(*    code is one token, and the tokens are chosen so that no literal can  *)
(*    arise across a token border.  "w in topic" is then "w is a token of  *)
(*    topic" and an f-string is the concatenation of its parts.            *)
(*  - An MQTT payload is a tagged value: bytes that are not UTF-8, text    *)
(*    that is not JSON, JSON that is not an object, or a JSON object.      *)
(*  - HMAC-SHA256 is the collision-free function <<"hmac", key, data>>.    *)
(***************************************************************************)
EXTENDS Integers, Sequences, FiniteSets, TLC

VARIABLES
    devices,        \* monitor_fleet.devices: device id -> record (dict)
    subscriptions,  \* topic filters the monitor's client has subscribed to
    now,            \* number of messages delivered so far = arrival time of the last one
    msg,            \* the message the last on_message call was given
    prev,           \* devices as it was when that call started
    outcome,        \* how that call ended
    prog,           \* which program this process runs
    sig,            \* compute_hmac_signature called on its own: its arguments and its result
    args,           \* the notifier's command line and environment
    pc,             \* the notifier's position in main()
    payload,        \* the notifier's announcement dict
    topic,          \* the notifier's topic
    out,            \* the lines the notifier has printed, in order, but for the wait loop's progress lines
    connected,      \* the notifier's flag set by its on_connect
    polls,          \* sleeps of the notifier's wait loop so far
    connacks,       \* calls of the notifier's on_connect so far
    publishes,      \* calls of client.publish so far
    exit_code,      \* the notifier's exit status, Running until it ends
    threads         \* on_message calls in progress when a transport delivers from several threads

vars == <<devices, subscriptions, now, msg, prev, outcome, prog, sig, threads, args, pc,
          payload, topic, out, connected, polls, connacks, publishes, exit_code, threads>>

monitorVars == <<devices, subscriptions, now, msg, prev, outcome>>

notifierVars == <<args, pc, payload, topic, out, connected, polls, connacks, publishes, exit_code>>

(***************************************************************************)
(* Bounds                                                                  *)
(***************************************************************************)
MaxEvents == 2

MaxStrLen == 2

MaxConnacks == 2

(***************************************************************************)
(* Dicts                                                                   *)
(***************************************************************************)
EmptyDict == [k \in {} |-> 0]

Entry(k, v) == [x \in {k} |-> v]

\* dict.get(key, default)
Get(d, k, default) == IF k \in DOMAIN d THEN d[k] ELSE default

\* A value no JSON document yields: what dict.get(key) returns for a missing key.
None == "<None>"

\* dict.update(other)
Update(rec, other) ==
    [k \in DOMAIN rec \cup DOMAIN other |->
        IF k \in DOMAIN other THEN other[k] ELSE rec[k]]

(***************************************************************************)
(* Topics                                                                  *)
(***************************************************************************)
Contains(s, w) == \E i \in 1..Len(s) : s[i] = w

StatusTopic(id) == <<"ota/", "status", "/">> \o id

HeartbeatTopic(id) == <<"ota/", "heartbeat", "/">> \o id

\* The last topic levels devices publish under: their ids.
TopicIds == { <<"dev-1">>, <<"status", "-probe">>, <<"heartbeat", "-probe">> }

StatusTopics == { StatusTopic(id) : id \in TopicIds }

HeartbeatTopics == { HeartbeatTopic(id) : id \in TopicIds }

\* MQTT filter match of "ota/status/#" and "ota/heartbeat/#".
Matches(t, filter) ==
    /\ Len(t) >= 3
    /\ SubSeq(t, 1, 3) = filter

MonitorFilters == { <<"ota/", "status", "/">>, <<"ota/", "heartbeat", "/">> }

\* The branch of on_message a topic selects: `if "status" in msg.topic ... elif "heartbeat" in msg.topic`.
Classify(t) ==
    IF Contains(t, "status") THEN "status"
    ELSE IF Contains(t, "heartbeat") THEN "heartbeat"
    ELSE "neither"

(***************************************************************************)
(* Payloads                                                                *)
(***************************************************************************)
DeviceIds == {"dev-1", "dev-2"}

\* A device_id that is a JSON array or object: not hashable, so not usable as a key.
UnhashableId == "<list>"

Protected == {"downloading", "self_test_running", "rebooting"}

RecognisedStatuses ==
    {"idle", "stable", "confirmed", "downloading", "update_available",
     "self_test_running", "rebooting", "download_failed", "rolled_back", "offline"}

\* Status strings devices report: the in-progress ones, a recognised one and an unrecognised one.
StatusValues == Protected \cup {"download_failed", "bogus"}

StateValues == {"idle", "rebooting"}

TelemetryFields == {"version", "group", "ip", "rssi", "free_heap", "uptime_ms"}

TelemetryValues == {1, 2}

\* The telemetry a status report carries and the telemetry a heartbeat carries.
TelemetryGroups == { {"version", "group", "ip"}, {"rssi", "free_heap", "uptime_ms"} }

\* A last_seen value a device put into its own payload; no arrival time equals it.
PayloadLastSeen == 0 - 1

Bodies ==
    {EmptyDict}
    \cup { Entry("status", s) : s \in StatusValues }
    \cup { Entry("state", s) : s \in StateValues }
    \cup { [f \in g |-> v] : g \in TelemetryGroups, v \in TelemetryValues }
    \cup { Entry("last_seen", PayloadLastSeen) }

Objects ==
    Bodies
    \cup { Update(Entry("device_id", d), b) : d \in DeviceIds, b \in Bodies }
    \cup { Update(Entry("device_id", UnhashableId), Entry("status", "downloading")) }

RawPayloads ==
    { [kind |-> "not_utf8", obj |-> EmptyDict],
      [kind |-> "not_json", obj |-> EmptyDict],
      [kind |-> "json_not_object", obj |-> EmptyDict] }
    \cup { [kind |-> "json_object", obj |-> o] : o \in Objects }

Messages == [topic : StatusTopics \cup HeartbeatTopics, payload : RawPayloads]

NoMessage == [topic |-> <<>>, payload |-> [kind |-> "none", obj |-> EmptyDict]]

(***************************************************************************)
(* on_message                                                              *)
(***************************************************************************)
\* json.loads that takes anything it cannot parse for an empty object.
LoadsLenient(raw) ==
    IF raw.kind = "json_object" THEN [exc |-> "none", obj |-> raw.obj]
    ELSE [exc |-> "none", obj |-> EmptyDict]

\* payload = json.loads(msg.payload.decode()); payload.get(...)
Loads(raw) ==
    CASE raw.kind = "not_utf8"        -> [exc |-> "UnicodeDecodeError", obj |-> EmptyDict]
      [] raw.kind = "not_json"        -> [exc |-> "JSONDecodeError", obj |-> EmptyDict]
      [] raw.kind = "json_not_object" -> [exc |-> "AttributeError", obj |-> EmptyDict]
      [] OTHER                        -> [exc |-> "none", obj |-> raw.obj]

\* A device id lookup without the sentinel: a payload without device_id cannot be filed.
DeviceIdOfStrict(obj) == Get(obj, "device_id", UnhashableId)

\* device_id = payload.get("device_id", "unknown")
DeviceIdOf(obj) == Get(obj, "device_id", "unknown")

\* A lookup that starts an unknown device from the record of a device already known.
RecordOfLeaky(store, id) ==
    IF id \in DOMAIN store THEN store[id]
    ELSE IF DOMAIN store # {} THEN store[CHOOSE k \in DOMAIN store : TRUE]
    ELSE EmptyDict

\* if device_id not in devices: devices[device_id] = {}
RecordOf(store, id) == IF id \in DOMAIN store THEN store[id] ELSE EmptyDict

\* A merge that forgets the fields the payload does not carry.
MergePayloadReplace(rec, obj) == obj

\* A merge that does not let the payload overwrite a status in progress.
MergePayloadKeepInProgress(rec, obj) ==
    [k \in DOMAIN rec \cup DOMAIN obj |->
        IF k \in DOMAIN obj /\ ~(k = "status" /\ Get(rec, "status", None) \in Protected)
        THEN obj[k] ELSE rec[k]]

\* devices[device_id].update(payload)
MergePayload(rec, obj) == Update(rec, obj)

\* The heartbeat branch: the record has been merged already.
ApplyHeartbeat(rec, obj) ==
    IF Get(rec, "status", None) \notin Protected
    THEN Update(rec, Entry("status", Get(obj, "state", "stable")))
    ELSE rec

\* The try block with the time stamp written before the payload is merged.
MergedStampFirst(store, m, obj, t) ==
    LET rec0 == RecordOf(store, DeviceIdOf(obj))
        rec1 == Update(rec0, Entry("last_seen", t))
        rec2 == MergePayload(rec1, obj)
    IN  IF Classify(m.topic) = "heartbeat" THEN ApplyHeartbeat(rec2, obj) ELSE rec2

\* The record of the message's device after the try block ran to its end.
Merged(store, m, obj, t) ==
    LET rec0 == RecordOf(store, DeviceIdOf(obj))
        rec1 == MergePayload(rec0, obj)
        rec2 == Update(rec1, Entry("last_seen", t))
    IN  IF Classify(m.topic) = "heartbeat" THEN ApplyHeartbeat(rec2, obj) ELSE rec2

\* The except clauses: JSONDecodeError passes, any other Exception is printed.
Handled(exc) == IF exc = "JSONDecodeError" THEN "dropped" ELSE "error_printed"

\* A handler that stamps every record, not only the record of the message's device.
OnMessageResultTouchAll(store, m, t) ==
    LET p == Loads(m.payload)
        id == DeviceIdOf(p.obj)
    IN  IF p.exc # "none" THEN [devices |-> store, outcome |-> Handled(p.exc)]
        ELSE IF id = UnhashableId THEN [devices |-> store, outcome |-> Handled("TypeError")]
        ELSE [devices |-> [k \in DOMAIN store \cup {id} |->
                              IF k = id THEN Merged(store, m, p.obj, t)
                              ELSE Update(store[k], Entry("last_seen", t))],
              outcome |-> "displayed"]

\* on_message(client, userdata, msg) at time t: the new store and how the call ended.
OnMessageResult(store, m, t) ==
    LET p == Loads(m.payload)
        id == DeviceIdOf(p.obj)
    IN  IF p.exc # "none" THEN [devices |-> store, outcome |-> Handled(p.exc)]
        ELSE IF id = UnhashableId THEN [devices |-> store, outcome |-> Handled("TypeError")]
        ELSE [devices |-> [k \in DOMAIN store \cup {id} |->
                              IF k = id THEN Merged(store, m, p.obj, t) ELSE store[k]],
              outcome |-> "displayed"]

(***************************************************************************)
(* Strings of the notifier                                                 *)
(***************************************************************************)
Alphabet == {"a", "|"}

\* The strings over Alphabet of length 0..n.
Strs(n) == UNION { [1..k -> Alphabet] : k \in 0..n }

\* hmac.new(key, data, hashlib.sha256).hexdigest()
Hmac(key, data) == <<"hmac", key, data>>

\* f"https://github.com/{repo}/releases/download/v{version}/firmware.bin"
build_firmware_url(repo, version) ==
    <<"https://github.com/">> \o repo \o <<"/releases/download/v">> \o version \o <<"/firmware.bin">>

\* A Signer that signs checksum|version|url.
compute_hmac_signature_reordered(version, sha256, url, signing_key) ==
    [exc |-> "none", value |-> Hmac(signing_key, sha256 \o <<"|">> \o version \o <<"|">> \o url)]

\* compute_hmac_signature: sign_data = f"{version}|{sha256}|{url}"; no test of the key.
compute_hmac_signature(version, sha256, url, signing_key) ==
    [exc |-> "none", value |-> Hmac(signing_key, version \o <<"|">> \o sha256 \o <<"|">> \o url)]

(***************************************************************************)
(* The notifier's inputs                                                   *)
(***************************************************************************)
Versions == { <<"1.2.0">>, <<"1.2.1">> }

Checksums == { <<"abc123">> }

Repos == { <<"org/fw">> }

\* argparse choices of --target
Targets == {"fleet", "canary", "staging", "production"}

\* --device not given
NoDevice == <<"<None>">>

\* --device: not given, given empty, given an id
DeviceArgs == { NoDevice, <<>>, <<"dev-7">> }

\* OTA_SIGNING_KEY: unset or empty, or a key
SigningKeys == { <<>>, <<"k1">>, <<"k2">> }

Notifiers == {"scripts/mqtt_notify.py", "mqtt_notify.py"}

NotifierArgs ==
    [version : Versions, sha256 : Checksums, repo : Repos, target : Targets,
     device : DeviceArgs, force : BOOLEAN, dry_run : BOOLEAN,
     signing_key : SigningKeys, mqtt_env : BOOLEAN]

NoArgs ==
    [version |-> <<>>, sha256 |-> <<>>, repo |-> <<>>, target |-> "fleet",
     device |-> NoDevice, force |-> FALSE, dry_run |-> FALSE,
     signing_key |-> <<>>, mqtt_env |-> FALSE]

Running == 0 - 1

\* timeout = 15
ConnectTimeout == 15

(***************************************************************************)
(* The notifier: building the announcement                                 *)
(***************************************************************************)
\* Truth value of a str-or-None argument.
Truthy(s) == s # NoDevice /\ s # <<>>

\* payload = {...}: the six fields both notifiers send; the timestamp is not modelled.
BasePayload(a) ==
    [version |-> a.version,
     url     |-> build_firmware_url(a.repo, a.version),
     sha256  |-> a.sha256,
     force   |-> a.force,
     repo    |-> a.repo]

\* The HMAC SIGNING block is taken: only scripts/mqtt_notify.py has it, under `if signing_key:`.
Signs(program, a) == program = "scripts/mqtt_notify.py" /\ a.signing_key # <<>>

\* compute_hmac_signature(args.version, args.sha256, firmware_url, signing_key)
Signature(a) ==
    compute_hmac_signature(a.version, a.sha256,
                           build_firmware_url(a.repo, a.version), a.signing_key).value

\* The payload after the signing block.
BuildPayload(program, a) ==
    IF Signs(program, a)
    THEN Update(BasePayload(a), Entry("signature", Signature(a)))
    ELSE BasePayload(a)

\* What the signing block prints.
SigningLines(program, a) ==
    IF program # "scripts/mqtt_notify.py" THEN <<>>
    ELSE IF Signs(program, a) THEN <<"Signature computed", "Sign data">>
    ELSE <<"WARNING: payload will NOT be signed", "Devices will REJECT">>

\* Topic resolution that looks at --target before --device.
ResolveTopicTargetFirst(a) ==
    IF a.target # "fleet" THEN <<"ota/group/", a.target>>
    ELSE IF Truthy(a.device) THEN <<"ota/device/">> \o a.device
    ELSE <<"ota/fleet/all">>

\* if args.device: ... elif args.target == "fleet": ... else: ...
ResolveTopic(a) ==
    IF Truthy(a.device) THEN <<"ota/device/">> \o a.device
    ELSE IF a.target = "fleet" THEN <<"ota/fleet/all">>
    ELSE <<"ota/group/", a.target>>

(***************************************************************************)
(* Initial states: a process runs one of the programs                      *)
(***************************************************************************)
SigIdle ==
    [called |-> FALSE, version |-> <<>>, sha256 |-> <<>>, url |-> <<>>, key |-> <<>>,
     result |-> [exc |-> "none", value |-> <<>>]]

InitMonitor ==
    /\ devices = EmptyDict
    /\ subscriptions = {}
    /\ now = 0
    /\ msg = NoMessage
    /\ prev = EmptyDict
    /\ outcome = "none"

InitNotifier(a) ==
    /\ args = a
    /\ pc = "start"
    /\ payload = EmptyDict
    /\ topic = <<>>
    /\ out = <<>>
    /\ connected = FALSE
    /\ polls = 0
    /\ connacks = 0
    /\ publishes = 0
    /\ exit_code = Running

\* paho-mqtt calls on_message from its one network thread: no call is ever in progress
\* when the next one starts.
NoThreads == <<>>

Init ==
    /\ InitMonitor
    /\ threads = NoThreads
    /\ \/ /\ prog = "scripts/monitor_fleet.py"
          /\ sig = SigIdle
          /\ InitNotifier(NoArgs)
       \/ /\ prog \in Notifiers
          /\ sig = SigIdle
          /\ \E a \in NotifierArgs : InitNotifier(a)
       \/ /\ prog = "compute_hmac_signature"
          /\ \E v, c, u, k \in Strs(MaxStrLen) :
                sig = [SigIdle EXCEPT !.version = v, !.sha256 = c, !.url = u, !.key = k]
          /\ InitNotifier(NoArgs)

(***************************************************************************)
(* The monitor                                                             *)
(***************************************************************************)
\* on_connect(client, userdata, flags, rc) of monitor_fleet.py
on_connect(rc) ==
    /\ prog = "scripts/monitor_fleet.py"
    /\ subscriptions' = IF rc = 0 THEN subscriptions \cup MonitorFilters ELSE subscriptions
    /\ UNCHANGED <<devices, now, msg, prev, outcome, prog, sig, threads, notifierVars>>

\* The broker delivers m, which matches a subscription, and the client calls on_message.
on_message(m) ==
    /\ prog = "scripts/monitor_fleet.py"
    /\ now < MaxEvents
    /\ \E f \in subscriptions : Matches(m.topic, f)
    /\ now' = now + 1
    /\ msg' = m
    /\ prev' = devices
    /\ LET r == OnMessageResult(devices, m, now + 1)
       IN  /\ devices' = r.devices
           /\ outcome' = r.outcome
    /\ UNCHANGED <<subscriptions, prog, sig, threads, notifierVars>>

(***************************************************************************)
(* The Signer called on its own                                            *)
(***************************************************************************)
Sign ==
    /\ prog = "compute_hmac_signature"
    /\ ~sig.called
    /\ sig' = [sig EXCEPT !.called = TRUE,
                          !.result = compute_hmac_signature(sig.version, sig.sha256, sig.url, sig.key)]
    /\ UNCHANGED <<monitorVars, prog, threads, notifierVars>>

(***************************************************************************)
(* The notifier's main()                                                   *)
(***************************************************************************)
\* sys.exit(code), or main() returning (code 0); the finally clause ends the network loop.
Exit(code, lines) ==
    /\ pc' = "done"
    /\ exit_code' = code
    /\ out' = out \o lines

\* From parse_args to the prints of topic, payload and URL.
Build ==
    /\ prog \in Notifiers
    /\ pc = "start"
    /\ payload' = BuildPayload(prog, args)
    /\ topic' = ResolveTopic(args)
    /\ out' = out \o SigningLines(prog, args) \o <<"Target", "Topic", "Payload", "URL">>
    /\ pc' = "built"
    /\ UNCHANGED <<monitorVars, prog, sig, threads, args, connected, polls, connacks, publishes, exit_code>>

\* if args.dry_run: return
DryRunExit ==
    /\ prog \in Notifiers
    /\ pc = "built"
    /\ args.dry_run
    /\ Exit(0, <<"[DRY RUN] Not sending">>)
    /\ UNCHANGED <<monitorVars, prog, sig, threads, args, payload, topic, connected, polls, connacks, publishes>>

\* get_env finds a required MQTT_* variable missing and exits.
GetEnvFails ==
    /\ prog \in Notifiers
    /\ pc = "built"
    /\ ~args.dry_run
    /\ ~args.mqtt_env
    /\ Exit(1, <<"ERROR: Missing environment variable">>)
    /\ UNCHANGED <<monitorVars, prog, sig, threads, args, payload, topic, connected, polls, connacks, publishes>>

\* client.connect(...); client.loop_start(): returns, or raises and the except clause exits.
Connect(raises) ==
    /\ prog \in Notifiers
    /\ pc = "built"
    /\ ~args.dry_run
    /\ args.mqtt_env
    /\ IF raises
       THEN Exit(1, <<"Connecting", "ERROR: exception">>)
       ELSE /\ pc' = "loop"
            /\ out' = out \o <<"Connecting">>
            /\ UNCHANGED exit_code
    /\ UNCHANGED <<monitorVars, prog, sig, threads, args, payload, topic, connected, polls, connacks, publishes>>

\* The nested on_connect, called by the network thread while the loop runs.
notify_on_connect(rc) ==
    /\ prog \in Notifiers
    /\ pc \in {"loop", "after_loop", "publish", "wait"}
    /\ connacks < MaxConnacks
    /\ connacks' = connacks + 1
    /\ connected' = (connected \/ rc = 0)
    /\ out' = out \o <<IF rc = 0 THEN "Connected to MQTT broker!" ELSE "MQTT connection failed">>
    /\ UNCHANGED <<monitorVars, prog, sig, threads, args, pc, payload, topic, polls, publishes, exit_code>>

\* One pass of `for i in range(timeout)` that does not break: sleep, and print the
\* progress line, which polls counts and out leaves out.
Poll ==
    /\ prog \in Notifiers
    /\ pc = "loop"
    /\ ~connected
    /\ polls < ConnectTimeout
    /\ polls' = polls + 1
    /\ UNCHANGED <<monitorVars, prog, sig, threads, args, pc, payload, topic, out, connected, connacks, publishes, exit_code>>

\* The loop ends: break on connected, or range exhausted.
LoopExit ==
    /\ prog \in Notifiers
    /\ pc = "loop"
    /\ connected \/ polls = ConnectTimeout
    /\ pc' = "after_loop"
    /\ UNCHANGED <<monitorVars, prog, sig, threads, args, payload, topic, out, connected, polls, connacks, publishes, exit_code>>

\* The step after the loop without the test of connected.
CheckConnectedSkipped ==
    /\ prog \in Notifiers
    /\ pc = "after_loop"
    /\ pc' = "publish"
    /\ UNCHANGED <<out, exit_code>>
    /\ UNCHANGED <<monitorVars, prog, sig, threads, args, payload, topic, connected, polls, connacks, publishes>>

\* if not connected: sys.exit(1)
CheckConnected ==
    /\ prog \in Notifiers
    /\ pc = "after_loop"
    /\ IF connected
       THEN /\ pc' = "publish"
            /\ UNCHANGED <<out, exit_code>>
       ELSE Exit(1, <<"ERROR: Could not connect to MQTT broker">>)
    /\ UNCHANGED <<monitorVars, prog, sig, threads, args, payload, topic, connected, polls, connacks, publishes>>

\* result = client.publish(topic, payload_json, qos=1, retain=True): returns or raises.
Publish(raises) ==
    /\ prog \in Notifiers
    /\ pc = "publish"
    /\ publishes' = publishes + 1
    /\ IF raises
       THEN Exit(1, <<"ERROR: exception">>)
       ELSE /\ pc' = "wait"
            /\ UNCHANGED <<out, exit_code>>
    /\ UNCHANGED <<monitorVars, prog, sig, threads, args, payload, topic, connected, polls, connacks>>

\* A wait that takes an unacknowledged publish for a success.
WaitForPublishLenient(result) ==
    /\ prog \in Notifiers
    /\ pc = "wait"
    /\ IF result = "raised"
       THEN Exit(1, <<"ERROR: exception">>)
       ELSE Exit(0, <<"Done">>)
    /\ UNCHANGED <<monitorVars, prog, sig, threads, args, payload, topic, connected, polls, connacks, publishes>>

\* result.wait_for_publish(timeout=10); result.is_published()
WaitForPublish(result) ==
    /\ prog \in Notifiers
    /\ pc = "wait"
    /\ CASE result = "acknowledged" ->
              Exit(0, <<"OTA notification published successfully!",
                        IF prog = "scripts/mqtt_notify.py"
                        THEN (IF args.signing_key # <<>> THEN "Signed: YES" ELSE "Signed: NO")
                        ELSE "SHA256">>)
         [] result = "timed_out" -> Exit(1, <<"ERROR: Failed to publish MQTT message">>)
         [] OTHER -> Exit(1, <<"ERROR: exception">>)
    /\ UNCHANGED <<monitorVars, prog, sig, threads, args, payload, topic, connected, polls, connacks, publishes>>

Next ==
    \/ \E rc \in {0, 5} : on_connect(rc)
    \/ \E m \in Messages : on_message(m)
    \/ Sign
    \/ Build
    \/ DryRunExit
    \/ GetEnvFails
    \/ \E raises \in BOOLEAN : Connect(raises)
    \/ \E rc \in {0, 5} : notify_on_connect(rc)
    \/ Poll
    \/ LoopExit
    \/ CheckConnected
    \/ \E raises \in BOOLEAN : Publish(raises)
    \/ \E result \in {"acknowledged", "timed_out", "raised"} : WaitForPublish(result)

Spec == Init /\ [][Next]_vars

(***************************************************************************)
(* A notifier run on its own, with its main thread scheduled               *)
(***************************************************************************)
InitNotifierRun == Init /\ prog \in Notifiers

\* The steps of main(): the main thread takes them one after the other; connect, sleep
\* and wait_for_publish all return within their timeouts.
MainStep ==
    \/ Build
    \/ DryRunExit
    \/ GetEnvFails
    \/ \E raises \in BOOLEAN : Connect(raises)
    \/ Poll
    \/ LoopExit
    \/ CheckConnected
    \/ \E raises \in BOOLEAN : Publish(raises)
    \/ \E result \in {"acknowledged", "timed_out", "raised"} : WaitForPublish(result)

NextNotifier ==
    \/ MainStep
    \/ \E rc \in {0, 5} : notify_on_connect(rc)

SpecNotifier == InitNotifierRun /\ [][NextNotifier]_vars /\ WF_vars(MainStep)

(***************************************************************************)
(* on_message called from two threads at once                              *)
(*                                                                         *)
(* What the module-level dict does when a transport with several workers   *)
(* runs two on_message calls at the same time.  A step is one operation on *)
(* the shared dict, which the interpreter lock makes atomic; nothing in    *)
(* on_message holds a lock across steps.  Both calls read the same clock   *)
(* value, so the stamps alone cannot tell the two serial orders apart.     *)
(***************************************************************************)
ThreadIds == {1, 2}

\* The messages the two calls are given: status reports and heartbeats of dev-1 and dev-2.
ConcurrentBodies ==
    { EmptyDict,
      Entry("status", "downloading"),
      Entry("status", "bogus"),
      Entry("state", "idle"),
      [f \in {"version", "group", "ip"} |-> 1],
      [f \in {"rssi", "free_heap", "uptime_ms"} |-> 2] }

ConcurrentMessages ==
    { [topic |-> t, payload |-> [kind |-> "json_object", obj |-> Update(Entry("device_id", d), b)]] :
        t \in {StatusTopic(<<"dev-1">>), HeartbeatTopic(<<"dev-1">>)},
        d \in DeviceIds, b \in ConcurrentBodies }

InitConcurrent ==
    /\ devices = EmptyDict
    /\ subscriptions = MonitorFilters
    /\ now = 1
    /\ msg = NoMessage
    /\ prev = EmptyDict
    /\ outcome = "none"
    /\ prog = "scripts/monitor_fleet.py"
    /\ sig = SigIdle
    /\ InitNotifier(NoArgs)
    /\ threads \in [ThreadIds -> [pc : {"test"}, m : ConcurrentMessages, absent : {FALSE}]]

ThreadObj(i) == threads[i].m.payload.obj

ThreadDevice(i) == DeviceIdOf(ThreadObj(i))

\* The shared dict with the record of id replaced by rec.
Store(id, rec) == [k \in DOMAIN devices \cup {id} |-> IF k = id THEN rec ELSE devices[k]]

ThreadUnchanged ==
    UNCHANGED <<subscriptions, now, msg, prev, outcome, prog, sig, notifierVars>>

\* payload = json.loads(...); device_id = ...; `device_id not in devices`
ThreadTest(i) ==
    /\ threads[i].pc = "test"
    /\ threads' = [threads EXCEPT ![i].absent = (ThreadDevice(i) \notin DOMAIN devices),
                                  ![i].pc = IF ThreadDevice(i) \notin DOMAIN devices
                                            THEN "create" ELSE "update"]
    /\ UNCHANGED devices
    /\ ThreadUnchanged

\* devices[device_id] = {}
ThreadCreate(i) ==
    /\ threads[i].pc = "create"
    /\ devices' = Store(ThreadDevice(i), EmptyDict)
    /\ threads' = [threads EXCEPT ![i].pc = "update"]
    /\ ThreadUnchanged

\* devices[device_id].update(payload)
ThreadUpdate(i) ==
    /\ threads[i].pc = "update"
    /\ devices' = Store(ThreadDevice(i), MergePayload(devices[ThreadDevice(i)], ThreadObj(i)))
    /\ threads' = [threads EXCEPT ![i].pc = "stamp"]
    /\ ThreadUnchanged

\* devices[device_id]["last_seen"] = datetime.now(timezone.utc).isoformat()
ThreadStamp(i) ==
    /\ threads[i].pc = "stamp"
    /\ devices' = Store(ThreadDevice(i), Update(devices[ThreadDevice(i)], Entry("last_seen", now)))
    /\ threads' = [threads EXCEPT ![i].pc = "branch"]
    /\ ThreadUnchanged

\* The topic tests and, on a heartbeat, `devices[device_id].get("status") not in [...]`
ThreadBranch(i) ==
    /\ threads[i].pc = "branch"
    /\ threads' = [threads EXCEPT ![i].pc =
                      IF Classify(threads[i].m.topic) = "heartbeat"
                         /\ Get(devices[ThreadDevice(i)], "status", None) \notin Protected
                      THEN "set" ELSE "done"]
    /\ UNCHANGED devices
    /\ ThreadUnchanged

\* state = payload.get("state", "stable"); devices[device_id]["status"] = state
ThreadSetStatus(i) ==
    /\ threads[i].pc = "set"
    /\ devices' = Store(ThreadDevice(i),
                        Update(devices[ThreadDevice(i)],
                               Entry("status", Get(ThreadObj(i), "state", "stable"))))
    /\ threads' = [threads EXCEPT ![i].pc = "done"]
    /\ ThreadUnchanged

NextConcurrent ==
    \E i \in ThreadIds :
        \/ ThreadTest(i)
        \/ ThreadCreate(i)
        \/ ThreadUpdate(i)
        \/ ThreadStamp(i)
        \/ ThreadBranch(i)
        \/ ThreadSetStatus(i)

SpecConcurrent == InitConcurrent /\ [][NextConcurrent]_vars

\* The store after on_message(first) and then on_message(second), from the empty store.
Serial(first, second) ==
    OnMessageResult(OnMessageResult(EmptyDict, first, now).devices, second, now).devices

(***************************************************************************)
(* The last message, as the properties below speak of it                   *)
(***************************************************************************)
\* The last message arrived on ota/heartbeat/...
IsHeartbeatEvent == Len(msg.topic) >= 3 /\ SubSeq(msg.topic, 1, 3) = <<"ota/", "heartbeat", "/">>

\* The last message arrived on ota/status/...
IsStatusEvent == Len(msg.topic) >= 3 /\ SubSeq(msg.topic, 1, 3) = <<"ota/", "status", "/">>

\* The last message's payload is a JSON object whose device id can key the store.
Accepted == msg.payload.kind = "json_object" /\ DeviceIdOf(msg.payload.obj) # UnhashableId

\* The last message's payload is not a JSON object at all.
Unparseable == msg.payload.kind \in {"not_utf8", "not_json", "json_not_object"}

EventObj == msg.payload.obj

EventId == DeviceIdOf(msg.payload.obj)

\* The record of the last message's device before the message, {} if it had none.
RecordBefore == IF EventId \in DOMAIN prev THEN prev[EventId] ELSE EmptyDict

\* The record of the last message's device after the message.
RecordAfter == IF EventId \in DOMAIN devices THEN devices[EventId] ELSE EmptyDict

(***************************************************************************)
(* Properties                                                              *)
(***************************************************************************)

\* C1: a heartbeat event for a device whose status is downloading, self_test_running or
\* rebooting leaves that status as it was, whatever the heartbeat's payload.
C1_HeartbeatLeavesProtectedStatus ==
    (IsHeartbeatEvent /\ Accepted /\ Get(RecordBefore, "status", None) \in Protected)
        => Get(RecordAfter, "status", None) = Get(RecordBefore, "status", None)

\* C2: a status event that carries a status field sets the status of the device it names
\* to exactly that value, whatever the status was and whether or not the value is recognised.
C2_StatusEventOverwrites ==
    (IsStatusEvent /\ Accepted /\ "status" \in DOMAIN EventObj)
        => /\ EventId \in DOMAIN devices
           /\ "status" \in DOMAIN devices[EventId]
           /\ devices[EventId].status = EventObj.status

\* A status event has replaced an in-progress status by an unrecognised one.
C2_Witness ==
    /\ IsStatusEvent /\ Accepted /\ "status" \in DOMAIN EventObj
    /\ Get(RecordBefore, "status", None) \in Protected
    /\ EventObj.status \notin RecognisedStatuses
    /\ devices[EventId].status = EventObj.status

\* C3: after an accepted event every telemetry field of the device's record has the payload's
\* value if the payload carries the field, and otherwise is as it was before (absent if absent).
C3_MergeIsPerField ==
    Accepted =>
        \A f \in TelemetryFields :
            IF f \in DOMAIN EventObj
            THEN f \in DOMAIN RecordAfter /\ RecordAfter[f] = EventObj[f]
            ELSE IF f \in DOMAIN RecordBefore
                 THEN f \in DOMAIN RecordAfter /\ RecordAfter[f] = RecordBefore[f]
                 ELSE f \notin DOMAIN RecordAfter

\* A record that had an ip got an event that carries rssi and no ip: the ip is still there
\* and the rssi is the event's.
C3_Witness ==
    /\ Accepted
    /\ "ip" \in DOMAIN RecordBefore
    /\ "ip" \notin DOMAIN EventObj
    /\ "rssi" \in DOMAIN EventObj
    /\ RecordAfter.ip = RecordBefore.ip
    /\ RecordAfter.rssi = EventObj.rssi

\* C4: a message whose payload cannot be parsed leaves the store as it was, and the handler
\* returns (silently or after printing) instead of raising.
C4_UnparseableLeavesStore ==
    Unparseable => (devices = prev /\ outcome \in {"dropped", "error_printed"})

\* An unparseable message arrived when the store already had a record.
C4_Witness ==
    /\ Unparseable
    /\ prev # EmptyDict
    /\ devices = prev

\* C5: a built announcement has a signature field if and only if a non-empty signing key
\* was configured.
C5_SignatureIffKey ==
    (prog \in Notifiers /\ pc # "start")
        => (("signature" \in DOMAIN payload) <=> (args.signing_key # <<>>))

\* What a device computes from the fields it received and its key.
DeviceRecomputes(p, key) ==
    Hmac(key, p.version \o <<"|">> \o p.sha256 \o <<"|">> \o p.url)

\* C6: the signature of a signed announcement is the HMAC, under the configured key, of
\* version|sha256|url as carried in the same payload.
C6_SignatureVerifies ==
    (prog \in Notifiers /\ "signature" \in DOMAIN payload)
        => payload.signature = DeviceRecomputes(payload, args.signing_key)

\* A signed announcement has been published and acknowledged.
C6_Witness ==
    /\ prog \in Notifiers
    /\ "signature" \in DOMAIN payload
    /\ pc = "done" /\ exit_code = 0 /\ publishes = 1
    /\ payload.signature = DeviceRecomputes(payload, args.signing_key)

\* C7: the Signer called with an empty key yields an error and no signature.
C7_SignerRejectsEmptyKey ==
    (sig.called /\ sig.key = <<>>) => sig.result.exc # "none"

\* C8: the topic is ota/device/{id} whenever a device id is given, whatever the target;
\* otherwise ota/fleet/all for the fleet target and ota/group/{name} for a group.
C8_TargetPrecedence ==
    (prog \in Notifiers /\ pc # "start") =>
        /\ (args.device \notin {NoDevice, <<>>}) => topic = <<"ota/device/">> \o args.device
        /\ (args.device \in {NoDevice, <<>>} /\ args.target = "fleet") => topic = <<"ota/fleet/all">>
        /\ (args.device \in {NoDevice, <<>>} /\ args.target # "fleet") => topic = <<"ota/group/", args.target>>

\* A device id and a group were both given and the topic is the device's.
C8_Witness ==
    /\ prog \in Notifiers /\ pc # "start"
    /\ args.device = <<"dev-7">>
    /\ args.target = "canary"
    /\ topic = <<"ota/device/", "dev-7">>

\* C9: a message on ota/heartbeat/{id} is handled by the heartbeat rule and a message on
\* ota/status/{id} by the status rule, whatever the id and the payload: the record after it
\* is the merged record with, for a heartbeat only, the heartbeat rule applied.
C9_ClassifiedByTopic ==
    Accepted =>
        LET merged == Update(Update(RecordBefore, EventObj), Entry("last_seen", now))
        IN  /\ IsHeartbeatEvent => RecordAfter = ApplyHeartbeat(merged, EventObj)
            /\ IsStatusEvent => RecordAfter = merged

\* C10: after a heartbeat event for a device whose status was not in progress (or that had
\* none), the status is the payload's state, or stable when the payload has no state.
C10_HeartbeatSetsStatus ==
    (IsHeartbeatEvent /\ Accepted /\ Get(RecordBefore, "status", None) \notin Protected)
        => Get(RecordAfter, "status", None) = Get(EventObj, "state", "stable")

\* The last message was the first event ever processed for its device.
FirstEvent == Accepted /\ EventId \notin DOMAIN prev

C12_NoIdGoesToUnknown ==
    (msg.payload.kind = "json_object" /\ "device_id" \notin DOMAIN EventObj) =>
        /\ "unknown" \in DOMAIN devices
        /\ devices["unknown"].last_seen = now
        /\ \A k \in DOMAIN EventObj \ {"last_seen", "status"} :
              k \in DOMAIN devices["unknown"] /\ devices["unknown"][k] = EventObj[k]
        /\ (IsStatusEvent /\ "status" \in DOMAIN EventObj)
              => devices["unknown"].status = EventObj.status

\* A status report without device_id arrived on the topic of dev-1 and is shown under unknown.
C12_Witness ==
    /\ msg.payload.kind = "json_object"
    /\ "device_id" \notin DOMAIN EventObj
    /\ msg.topic = StatusTopic(<<"dev-1">>)
    /\ "version" \in DOMAIN EventObj
    /\ "unknown" \in DOMAIN devices
    /\ devices["unknown"].version = EventObj.version
    /\ "dev-1" \notin DOMAIN devices

\* C13: after every accepted event the device's last_seen is the event's arrival time,
\* whatever last_seen the payload carries and also when the heartbeat's state is suppressed;
\* and no record's last_seen is smaller than it was before the event.
C13_LastSeenIsArrivalTime ==
    /\ Accepted => (EventId \in DOMAIN devices /\ devices[EventId].last_seen = now)
    /\ \A d \in DOMAIN prev :
          d \in DOMAIN devices /\ devices[d].last_seen >= prev[d].last_seen

\* A payload with its own last_seen reached a device that had a record: the record's
\* last_seen is the arrival time, later than the one it had.
C13_Witness ==
    /\ Accepted
    /\ EventId \in DOMAIN prev
    /\ "last_seen" \in DOMAIN EventObj
    /\ EventObj.last_seen # now
    /\ devices[EventId].last_seen = now
    /\ devices[EventId].last_seen > prev[EventId].last_seen

\* C14: a message that does not parse as a JSON object (undecodable bytes, invalid JSON,
\* JSON that is not an object) is dropped without an error line.
C14_UnparseableIsSilent ==
    Unparseable => outcome = "dropped"

\* C19: a message leaves every record other than the one of the device its payload names
\* as it was, and removes no record.
C19_OtherRecordsUntouched ==
    \A d \in DOMAIN prev :
        /\ d \in DOMAIN devices
        /\ (~Accepted \/ d # EventId) => devices[d] = prev[d]

\* An event for one device was merged while another device had a record, which is unchanged.
C19_Witness ==
    /\ Accepted
    /\ devices[EventId] # RecordBefore
    /\ \E d \in DOMAIN prev : d # EventId /\ devices[d] = prev[d] /\ "status" \in DOMAIN prev[d]

\* The broker acknowledged the publish within the wait: the success line was printed.
Acknowledged == Contains(out, "OTA notification published successfully!")

\* C15 as stated: publish is called at most once, and a run ends with success only if that
\* one publish was acknowledged; every other run ends with a failure status.
C15_SuccessOnlyIfAcknowledged ==
    prog \in Notifiers =>
        /\ publishes <= 1
        /\ pc = "done" => (exit_code = 0 <=> (publishes = 1 /\ Acknowledged))

\* C15 as amended: the same, for runs that are not dry runs; a dry run ends with success
\* without calling publish.
C15_NoRetryAndExitStatus ==
    prog \in Notifiers =>
        /\ publishes <= 1
        /\ (pc = "done" /\ ~args.dry_run) => (exit_code = 0 <=> (publishes = 1 /\ Acknowledged))
        /\ (pc = "done" /\ ~args.dry_run) => exit_code \in {0, 1}
        /\ (pc = "done" /\ args.dry_run) => (exit_code = 0 /\ publishes = 0)

\* A run published once, was not acknowledged, and ended with status 1.
C15_Witness ==
    /\ prog \in Notifiers
    /\ pc = "done"
    /\ publishes = 1
    /\ ~Acknowledged
    /\ exit_code = 1
    /\ Contains(out, "ERROR: Failed to publish MQTT message")

\* C16: an announcement built without a signature is preceded by the unsigned-payload
\* warning: the warning is printed when it is built, hence before it is published.
C16_UnsignedIsWarned ==
    (prog \in Notifiers /\ pc # "start" /\ "signature" \notin DOMAIN payload)
        => Contains(out, "WARNING: payload will NOT be signed")

\* C18, the part about states: publish has been called only in runs that are not dry runs
\* and whose on_connect reported rc = 0; a dry run attempts no connection; a run that ends
\* without that report ends with status 1 and has never called publish.
PublishOnlyWhenConnected ==
    /\ publishes >= 1 => (~args.dry_run /\ connected)
    /\ args.dry_run => (~Contains(out, "Connecting") /\ connacks = 0 /\ polls = 0 /\ publishes = 0)
    /\ (pc = "done" /\ ~args.dry_run /\ ~connected) => (exit_code = 1 /\ publishes = 0)
    /\ polls <= ConnectTimeout

\* C18: the notifier publishes only when it is not a dry run and the connection was reported;
\* without that report within the 15 polls it ends with a failure status and no publish;
\* and every run terminates.
C18_PublishOnlyWhenConnectedAndTerminates ==
    [] PublishOnlyWhenConnected /\ <>(pc = "done")

\* A run slept 15 times, was only told that the connection failed, and ended with
\* status 1 without publishing.
C18_Witness ==
    /\ prog \in Notifiers
    /\ pc = "done"
    /\ polls = ConnectTimeout
    /\ connacks >= 1
    /\ ~connected
    /\ exit_code = 1
    /\ publishes = 0

\* C20: two triples (version, sha256, url) that differ give different signed strings, hence
\* different signatures under one key: no other triple has the signature of the one signed.
C20_SignedInputUnambiguous ==
    sig.called =>
        \A v, c, u \in Strs(MaxStrLen) :
            <<v, c, u>> # <<sig.version, sig.sha256, sig.url>>
                => compute_hmac_signature(v, c, u, sig.key).value # sig.result.value

====
